---- MODULE Spec2Model ----
(***************************************************************************)
(* The Las Vegas dice game of src/src/lasvegas/game.py (class LasVegas)    *)
(* as a state machine: the object's fields are the variables, __init__ is  *)
(* Init, and play_move and advance_round are the actions; roll_dice and    *)
(* get_game_state, which change nothing, are operators on the state.  The  *)
(* sources of randomness, shuffle(), randint() and the caller's arguments, *)
(* are bounded nondeterministic choices.                                   *)
(***************************************************************************)
EXTENDS Integers, Sequences, FiniteSets, TLC

\* ---------------------------------------------------------------- constants

MAX_PLAYERS == 5
NUM_DICE == 8
NUM_ROUNDS == 4
CASH_NORM == 100
\* range(6): the number of casinos, one per die face
NUM_CASINOS == 6
\* while sum(bills[i]) < 50
MIN_POT == 50
\* while len(bills[i]) < 5
NUM_SLOTS == 5
\* "There should be a total of 54 bills in the game"
TOTAL_BILLS == 54

\* BILL_COUNTS in dictionary order: <<bill value, number of such bills>>
BILL_COUNTS ==
    << <<10, 6>>, <<20, 8>>, <<30, 8>>, <<40, 6>>, <<50, 6>>,
       <<60, 5>>, <<70, 5>>, <<80, 5>>, <<90, 5>> >>

\* ------------------------------------------------------------------- bounds

\* shuffle() is explored for this many orders of the deck
MaxShuffle == 2
\* the caller places dice in the casinos 0..MaxCasino (and tries invalid ones)
MaxCasino == 1
\* play is followed through the rounds with round * num_players <= MaxSeats:
\* all rounds of a game of 2 players, fewer rounds of the larger games
MaxSeats == 8
\* a player's dice are followed down to -MaxOverdraw
MaxOverdraw == 1
\* the caller resolves the final round at most this many times
MaxFinals == 2
\* SpecPayout: each player has placed 0..MaxCount dice in casino 0
MaxCount == 4
\* roll_dice: a roll of all dice shows up to MaxSplit dice on the first face
MaxSplit == 1

Slots == 0 .. (MAX_PLAYERS - 1)
Casinos == 0 .. (NUM_CASINOS - 1)

VARIABLES
    num_players,    \* self.num_players
    players,        \* self.players: slot -> [cash, dice]
    deck,           \* self.deck: a list, its last element is popped first
    casinos,        \* self.casinos: casino -> [bills, dice]
    first_player,   \* self.first_player
    round,          \* self.round
    last,           \* the method called last
    err,            \* the exception the last call raised, "" if it returned
    resolved,       \* casino -> the bills and dice the last advance_round
                    \* found there and the cash (gain) it added to each slot
    payouts,        \* number of non-empty bills paid to players so far
    finals          \* number of accepted advance_round calls in the final round

game == <<num_players, players, deck, casinos, first_player, round>>
vars == <<num_players, players, deck, casinos, first_player, round,
          last, err, resolved, payouts, finals>>

\* ------------------------------------------------------------ list helpers

\* The recursive definitions take the value of an argument from a set of
\* one element, { .. : s \in {s0}}, and CHOOSE the one result: an argument
\* is then computed once, where a parameter used several times is computed
\* again at each use when the definition is evaluated inside ENABLED.

RECURSIVE SumSeq(_)
SumSeq(s0) ==
    CHOOSE sum \in {IF s = <<>> THEN 0 ELSE Head(s) + SumSeq(Tail(s)) :
                       s \in {s0}} : TRUE

RECURSIVE SumOver(_, _)
SumOver(f, S0) ==
    CHOOSE sum \in
        {IF S = {} THEN 0
         ELSE LET x == CHOOSE y \in S : TRUE IN f[x] + SumOver(f, S \ {x}) :
         S \in {S0}} : TRUE

Reverse(s) == [i \in 1 .. Len(s) |-> s[Len(s) + 1 - i]]

RECURSIVE Repeat(_, _)
Repeat(x, n) == IF n = 0 THEN <<>> ELSE <<x>> \o Repeat(x, n - 1)

\* list.pop(): the last element is removed
Pop(s) == [item |-> s[Len(s)], rest |-> SubSeq(s, 1, Len(s) - 1)]

\* the number of non-empty (non-zero) bills of a list
NonEmpty(s) == Cardinality({i \in 1 .. Len(s) : s[i] # 0})

RECURSIVE Insert(_, _)
Insert(x0, s0) ==
    CHOOSE list \in
        {IF s = <<>> THEN <<x>>
         ELSE IF x >= Head(s) THEN <<x>> \o s
         ELSE <<Head(s)>> \o Insert(x, Tail(s)) :
         x \in {x0}, s \in {s0}} : TRUE

\* list.sort(reverse=True)
RECURSIVE SortDesc(_)
SortDesc(s0) ==
    CHOOSE list \in
        {IF s = <<>> THEN <<>> ELSE Insert(Head(s), SortDesc(Tail(s))) :
         s \in {s0}} : TRUE

\* --------------------------------------------------------------- the deck

RECURSIVE FullDeckFrom(_)
FullDeckFrom(i) ==
    IF i > Len(BILL_COUNTS) THEN <<>>
    ELSE Repeat(BILL_COUNTS[i][1], BILL_COUNTS[i][2]) \o FullDeckFrom(i + 1)

\* [bill for bill, count in BILL_COUNTS.items() for _ in range(count)]
FullDeck == FullDeckFrom(1)

Cut(d, m) == SubSeq(d, m + 1, Len(d)) \o SubSeq(d, 1, m)

\* shuffle(self.deck): the k-th of the orders explored.  Odd k reverse the
\* deck after cutting it, even k only cut it; the cut moves with k.
Shuffle(d, k) ==
    IF d = <<>> THEN d
    ELSE LET m == ((k \div 2) * 11) % Len(d)
         IN  IF k % 2 = 1 THEN Reverse(Cut(d, m)) ELSE Cut(d, m)

Shuffles == 1 .. MaxShuffle

\* ------------------------------------------------------------- deal_bills

\* mutant of DrawBills: the threshold is taken in the wrong unit
RECURSIVE DrawBillsHigh(_, _)
DrawBillsHigh(d0, b0) ==
    CHOOSE drawn \in
        {IF SumSeq(b) >= 10 * MIN_POT THEN [deck |-> d, bills |-> b, ok |-> TRUE]
         ELSE IF d = <<>> THEN [deck |-> d, bills |-> b, ok |-> FALSE]
         ELSE DrawBillsHigh(Pop(d).rest, Append(b, Pop(d).item)) :
         d \in {d0}, b \in {b0}} : TRUE

\* while sum(bills[i]) < 50: bills[i].append(self.deck.pop())
\* ok is FALSE when the deck is empty before the sum is reached (pop raises)
RECURSIVE DrawBills(_, _)
DrawBills(d0, b0) ==
    CHOOSE drawn \in
        {IF SumSeq(b) >= MIN_POT THEN [deck |-> d, bills |-> b, ok |-> TRUE]
         ELSE IF d = <<>> THEN [deck |-> d, bills |-> b, ok |-> FALSE]
         ELSE DrawBills(Pop(d).rest, Append(b, Pop(d).item)) :
         d \in {d0}, b \in {b0}} : TRUE

\* mutant of PadBills: the list is not padded
PadBillsNone(b) == b

\* while len(bills[i]) < 5: bills[i].append(0)
PadBills(b) ==
    IF Len(b) < NUM_SLOTS THEN b \o Repeat(0, NUM_SLOTS - Len(b)) ELSE b

\* the casinos built from the bill lists dealt:
\* {"bills": bills[i], "dice": [0] * self.MAX_PLAYERS}
NewCasinos(bills) ==
    [c \in Casinos |-> [bills |-> bills[c + 1], dice |-> [p \in Slots |-> 0]]]

\* the loop over the casinos i, i+1, ..: acc holds the lists dealt so far.
\* The result is the deck left, the casinos made, and whether the deal
\* returned (ok) or raised IndexError on an empty deck
RECURSIVE DealFrom(_, _, _)
DealFrom(d0, i, acc0) ==
    CHOOSE dealt \in
        {IF i = NUM_CASINOS
         THEN [deck |-> d, casinos |-> NewCasinos(acc), ok |-> TRUE]
         ELSE CHOOSE rest \in
                {IF ~drawn.ok
                 THEN [deck |-> drawn.deck, casinos |-> <<>>, ok |-> FALSE]
                 ELSE DealFrom(drawn.deck, i + 1,
                               Append(acc, SortDesc(PadBills(drawn.bills)))) :
                 drawn \in {DrawBills(d, <<>>)}} : TRUE :
         d \in {d0}, acc \in {acc0}} : TRUE

deal_bills(d) == DealFrom(d, 0, <<>>)

\* ---------------------------------------------------------------- __init__

\* nothing has been resolved yet
NoPay == [c \in Casinos |->
             [bills |-> <<>>,
              dice |-> [p \in Slots |-> 0],
              gain |-> [p \in Slots |-> 0]]]

Init ==
    \E n \in 2 .. MAX_PLAYERS, k \in Shuffles :
        LET dealt == deal_bills(Shuffle(FullDeck, k))
        IN  /\ num_players = n
            /\ players = [i \in Slots |->
                             IF i < n THEN [cash |-> 0, dice |-> NUM_DICE]
                             ELSE [cash |-> 0, dice |-> 0]]
            /\ deck = dealt.deck
            /\ casinos = dealt.casinos
            /\ first_player = 0
            /\ round = 1
            /\ last = "__init__"
            /\ err = ""
            /\ resolved = NoPay
            /\ payouts = 0
            /\ finals = 0

\* --------------------------------------------------------------- play_move

\* the arguments the caller passes: player, action, and roll_counts[action],
\* the only entry of roll_counts that play_move reads
PlayerArgs == -1 .. MAX_PLAYERS
ActionArgs == {-1, NUM_CASINOS} \cup (0 .. MaxCasino)
RollArgs == {0, NUM_DICE, NUM_DICE + 1}

\* mutant of ValidMove: the roll count is not checked
ValidMoveNoRoll(player, action, r) ==
    /\ 0 <= player /\ player < num_players
    /\ 0 <= action /\ action < NUM_CASINOS

\* the three assertions of play_move
ValidMove(player, action, r) ==
    /\ 0 <= player /\ player < num_players
    /\ 0 <= action /\ action < NUM_CASINOS
    /\ r > 0

\* how far below zero the players' dice are, all players together
Overdraw(pl) ==
    SumOver([p \in Slots |-> IF pl[p].dice < 0 THEN -pl[p].dice ELSE 0], Slots)

\* mutant of Spend: the dice played stay with the player
SpendNone(pl, player, r) == pl

\* self.players[player]["dice"] -= roll_counts[action]
Spend(pl, player, r) == [pl EXCEPT ![player].dice = @ - r]

\* mutant of Place: the casino and the player index are swapped
PlaceSwapped(cs, player, action, r) == [cs EXCEPT ![player].dice[action] = @ + r]

\* self.casinos[action]["dice"][player] += roll_counts[action]
Place(cs, player, action, r) == [cs EXCEPT ![action].dice[player] = @ + r]

play_move(player, action, r) ==
    /\ last' = "play_move"
    /\ IF ValidMove(player, action, r)
       THEN /\ round * num_players <= MaxSeats
            /\ players' = Spend(players, player, r)
            /\ Overdraw(players') <= MaxOverdraw
            /\ casinos' = Place(casinos, player, action, r)
            /\ err' = ""
            /\ UNCHANGED <<num_players, deck, first_player, round,
                           resolved, payouts, finals>>
       ELSE /\ err' = "AssertionError"
            /\ UNCHANGED <<game, resolved, payouts, finals>>

PlayMove == \E player \in PlayerArgs, action \in ActionArgs, r \in RollArgs :
                play_move(player, action, r)

\* ------------------------------------------------- is_end_round, is_end_game

\* mutant of is_end_round: any() in place of all()
is_end_round_any == \E i \in 0 .. (num_players - 1) : players[i].dice = 0

is_end_round == \A i \in 0 .. (num_players - 1) : players[i].dice = 0

is_end_game == (round = NUM_ROUNDS) /\ is_end_round

\* ----------------------------------------------------------- advance_round

\* counts = Counter(casino["dice"]): counts[v] is the number of slots holding v
Counter(dice, v) == Cardinality({q \in Slots : dice[q] = v})

\* mutant of UniqueCount: a shared count passes too
AnyCount(dice, p) == Counter(dice, dice[p]) >= 1

\* counts[count] == 1 for the count of slot p
UniqueCount(dice, p) == Counter(dice, dice[p]) = 1

\* sorted(enumerate(casino["dice"]), key=lambda x: x[1]): the slots in
\* ascending order of count; the sort is stable, so equal counts keep the
\* order of their slot numbers
Position(dice, p) ==
    1 + Cardinality({q \in Slots :
                        \/ dice[q] < dice[p]
                        \/ (dice[q] = dice[p] /\ q < p)})

\* mutant of Ranked: the slots in descending order, so that the walk
\* starts from the lowest count
RankedReversed(dice) ==
    [i \in 1 .. MAX_PLAYERS |->
        CHOOSE p \in Slots : Position(dice, p) = MAX_PLAYERS + 1 - i]

Ranked(dice) ==
    [i \in 1 .. MAX_PLAYERS |-> CHOOSE p \in Slots : Position(dice, p) = i]

\* the condition under which the slot popped from ranked takes a bill
TakesBill(dice, p, bills) == UniqueCount(dice, p) /\ bills # <<>>

\* while len(ranked) > 0: player, count = ranked.pop(); if ...: cash += bills.pop(0)
\* gain is the cash added to each slot so far, bills the casino's list
RECURSIVE Walk(_, _, _, _)
Walk(dice, ranked0, bills0, gain0) ==
    CHOOSE walked \in
        {IF ranked = <<>> THEN [gain |-> gain, bills |-> bills]
         ELSE CHOOSE rest \in
                {IF TakesBill(dice, p, bills)
                 THEN Walk(dice, Pop(ranked).rest, Tail(bills),
                           [gain EXCEPT ![p] = @ + Head(bills)])
                 ELSE Walk(dice, Pop(ranked).rest, bills, gain) :
                 p \in {Pop(ranked).item}} : TRUE :
         ranked \in {ranked0}, bills \in {bills0}, gain \in {gain0}} : TRUE

\* one pass of the loop body over a casino: what each slot gains and the
\* bills the casino keeps
Resolve(casino) ==
    Walk(casino.dice, Ranked(casino.dice), casino.bills, [p \in Slots |-> 0])

\* mutant of Leftover: the empty slots are returned too
LeftoverAll(bills) == bills

\* for bill in casino["bills"]: if bill: self.deck.append(bill)
Leftover(bills) == SelectSeq(bills, LAMBDA b : b # 0)

\* the deck after the casinos c, c+1, .. have returned their leftover bills;
\* res[c] is what Resolve made of casino c
RECURSIVE ReturnFrom(_, _, _)
ReturnFrom(res, c, d) ==
    IF c = NUM_CASINOS THEN d
    ELSE ReturnFrom(res, c + 1, d \o Leftover(res[c].bills))

\* mutant of MoreRounds: the final round redeals too
MoreRoundsAlways == round <= NUM_ROUNDS

\* if self.round < self.NUM_ROUNDS
MoreRounds == round < NUM_ROUNDS

\* mutant of NextFirst: the index wraps at MAX_PLAYERS, not at num_players
NextFirstAll(fp, n) == (fp + 1) % MAX_PLAYERS

\* (self.first_player + 1) % self.num_players
NextFirst(fp, n) == (fp + 1) % n

\* res and dealt are bound by \E over a one-element set, so that each is
\* computed once
advance_round(k) ==
    /\ last' = "advance_round"
    /\ IF ~is_end_round
       THEN /\ err' = "AssertionError"
            /\ UNCHANGED <<game, resolved, payouts, finals>>
       ELSE \E res \in {[c \in Casinos |-> Resolve(casinos[c])]} :
            LET paidPlayers ==
                    [p \in Slots |->
                        [players[p] EXCEPT
                            !.cash = @ + SumOver([c \in Casinos |-> res[c].gain[p]], Casinos)]]
                paidCasinos ==
                    [c \in Casinos |-> [casinos[c] EXCEPT !.bills = res[c].bills]]
                fullDeck == ReturnFrom(res, 0, deck)
            IN  /\ round = NUM_ROUNDS => finals < MaxFinals
                /\ finals' = IF round = NUM_ROUNDS THEN finals + 1 ELSE finals
                /\ resolved' = [c \in Casinos |->
                                [bills |-> casinos[c].bills,
                                 dice |-> casinos[c].dice,
                                 gain |-> res[c].gain]]
                /\ payouts' = payouts +
                       SumOver([c \in Casinos |->
                                   NonEmpty(casinos[c].bills) - NonEmpty(res[c].bills)],
                               Casinos)
                /\ UNCHANGED num_players
                /\ IF MoreRounds
                   THEN \E dealt \in {deal_bills(Shuffle(fullDeck, k))} :
                        IF dealt.ok
                        THEN /\ deck' = dealt.deck
                             /\ casinos' = dealt.casinos
                             /\ players' = [p \in Slots |->
                                              IF p < num_players
                                              THEN [paidPlayers[p] EXCEPT !.dice = NUM_DICE]
                                              ELSE paidPlayers[p]]
                             /\ first_player' = NextFirst(first_player, num_players)
                             /\ round' = round + 1
                             /\ err' = ""
                        ELSE \* deck.pop() raised in deal_bills: the payouts stay
                             /\ deck' = dealt.deck
                             /\ casinos' = paidCasinos
                             /\ players' = paidPlayers
                             /\ err' = "IndexError"
                             /\ UNCHANGED <<first_player, round>>
                   ELSE /\ deck' = fullDeck
                        /\ casinos' = paidCasinos
                        /\ players' = paidPlayers
                        /\ err' = ""
                        /\ UNCHANGED <<first_player, round>>

\* the shuffle order is read only when the round is resolved and redealt
AdvanceRound == \E k \in Shuffles : advance_round(k)

Next == PlayMove \/ AdvanceRound

Spec == Init /\ [][Next]_vars

\* ---------------------------------------------------------------- roll_dice

\* the lists of n counts (0 or more each) that sum to d
RECURSIVE Rolls(_, _)
Rolls(d, n) ==
    IF n = 0 THEN (IF d = 0 THEN {<<>>} ELSE {})
    ELSE UNION {{<<j>> \o rest : rest \in Rolls(d - j, n - 1)} : j \in 0 .. d}

\* the dice all show one face, or (a roll of all NUM_DICE dice) 1 .. MaxSplit
\* of them show the first face and the others the second
Shown(rc, d) ==
    \/ \E f \in 1 .. Len(rc) : rc[f] = d
    \/ /\ d = NUM_DICE /\ Len(rc) >= 2
       /\ 1 <= rc[1] /\ rc[1] <= MaxSplit /\ rc[1] + rc[2] = d

\* roll = [randint(1, 6) for _ in range(dice)]; roll_counts[i] = roll.count(i + 1):
\* a list of 6 counts that sums to the player's dice (range() of a negative
\* number is empty).  The rolls followed show the faces of the casinos
\* 0 .. MaxCasino only, split as Shown says.
roll_dice(player) ==
    LET d == IF players[player].dice > 0 THEN players[player].dice ELSE 0
    IN  {rc \o Repeat(0, NUM_CASINOS - (MaxCasino + 1)) :
            rc \in {x \in Rolls(d, MaxCasino + 1) : Shown(x, d)}}

\* ----------------------------------------------------------- get_game_state

\* BILL_COUNTS.keys()
Denominations == {BILL_COUNTS[i][1] : i \in 1 .. Len(BILL_COUNTS)}

\* max(self.BILL_COUNTS.keys())
MaxBill == CHOOSE b \in Denominations : \A x \in Denominations : x <= b

\* the quotient n / d, kept as the pair of its terms
Frac(n, d) == <<n, d>>

\* s[player:] + s[:player], for player >= 0: a slice past the end is empty
Shift(s, player) ==
    LET k == IF player > Len(s) THEN Len(s) ELSE player
    IN  SubSeq(s, k + 1, Len(s)) \o SubSeq(s, 1, k)

\* x / d for x in s
Norm(s, d) == [i \in 1 .. Len(s) |-> Frac(s[i], d)]

\* player - first_player if player >= first_player
\* else num_players - first_player + player
Order(player) ==
    IF player >= first_player THEN player - first_player
    ELSE num_players - first_player + player

\* cash = [player["cash"] for player in self.players]
CashList == [i \in 1 .. MAX_PLAYERS |-> players[i - 1].cash]

\* casino["dice"] as a list
DiceList(c) == [i \in 1 .. MAX_PLAYERS |-> casinos[c].dice[i - 1]]

\* the two blocks of casino c: its dice and its bills, both shifted
DiceBlock(c, player) == Norm(Shift(DiceList(c), player), NUM_DICE)
BillBlock(c, player) == Norm(Shift(casinos[c].bills, player), MaxBill)

\* for casino in self.casinos: vec.extend(dice ...); vec.extend(bills ...)
RECURSIVE CasinoBlocks(_, _)
CasinoBlocks(c, player) ==
    IF c = NUM_CASINOS THEN <<>>
    ELSE DiceBlock(c, player) \o BillBlock(c, player) \o CasinoBlocks(c + 1, player)

get_game_state(player, roll_counts) ==
    << Frac(num_players, MAX_PLAYERS),
       Frac(round, NUM_ROUNDS),
       Frac(Order(player), num_players) >>
    \o Norm(Shift(CashList, player), CASH_NORM)
    \o CasinoBlocks(0, player)
    \o Norm(roll_counts, NUM_DICE)

\* ---------------------------------------------------------------------------
\* SpecPayout: advance_round applied to the ends of round 1.  A player may
\* split the NUM_DICE dice over the casinos in any way (one die per
\* play_move call reaches every split); here each active player has placed
\* 0..MaxCount dice in casino 0 and the rest in casino 1.

InitPayout ==
    \E n \in 2 .. MAX_PLAYERS, k \in Shuffles :
    \E j \in [0 .. (n - 1) -> 0 .. MaxCount] :
        LET dealt == deal_bills(Shuffle(FullDeck, k))
            placed(c, p) == IF p >= n THEN 0
                            ELSE IF c = 0 THEN j[p]
                            ELSE IF c = 1 THEN NUM_DICE - j[p]
                            ELSE 0
        IN  /\ num_players = n
            /\ players = [i \in Slots |-> [cash |-> 0, dice |-> 0]]
            /\ deck = dealt.deck
            /\ casinos = [c \in Casinos |->
                             [bills |-> dealt.casinos[c].bills,
                              dice |-> [p \in Slots |-> placed(c, p)]]]
            /\ first_player = 0
            /\ round = 1
            /\ last = "play_move"
            /\ err = ""
            /\ resolved = NoPay
            /\ payouts = 0
            /\ finals = 0

SpecPayout == InitPayout /\ [][AdvanceRound]_vars

\* ---------------------------------------------------------------------------
\* SpecPlay: the game as a driver plays it.  A player rolls (roll_dice) and
\* plays one of the faces rolled (play_move with the counts returned); when
\* the round is over the driver calls advance_round, once for each round.
\* The games followed are those the seat bound lets run to their end.

InitPlay == Init /\ NUM_ROUNDS * num_players <= MaxSeats

Turn ==
    \E player \in 0 .. (num_players - 1) :
    \E rc \in roll_dice(player) :
    \E action \in Casinos :
        /\ rc[action + 1] > 0
        /\ play_move(player, action, rc[action + 1])

EndRound == is_end_round /\ finals = 0 /\ AdvanceRound

NextPlay == Turn \/ EndRound

SpecPlay == InitPlay /\ [][NextPlay]_vars /\ WF_vars(NextPlay)

\* ---------------------------------------------------------------------------
\* The claims

\* a step that is an accepted advance_round call
Resolved == is_end_round /\ \E k \in Shuffles : advance_round(k)

\* slot p shares its count in a casino with another slot
Tied(dice, p) == \E q \in Slots \ {p} : dice[q] = dice[p]

\* slot p holds the highest count of the casino that no other slot shares
TopUnique(dice, p) ==
    /\ ~Tied(dice, p)
    /\ \A q \in Slots : (~Tied(dice, q) /\ q # p) => dice[q] < dice[p]

\* C1: in every casino a slot whose count equals another slot's count gets
\* no cash from the casino, and the highest count that is unique gets the
\* casino's most valuable bill, whatever tied groups stand above it.
TieRule ==
    \A c \in Casinos : \A p \in Slots :
        /\ Tied(resolved[c].dice, p) => resolved[c].gain[p] = 0
        /\ (TopUnique(resolved[c].dice, p) /\ resolved[c].bills # <<>>)
               => resolved[c].gain[p] = resolved[c].bills[1]

\* C1 witness: a casino resolved with the counts 3, 3 and 1 and a non-empty
\* first bill: the slots with 3 dice got nothing, the slot with 1 die the bill.
TieRuleWitness ==
    \E c \in Casinos : \E p, q, r \in Slots :
        /\ p # q
        /\ resolved[c].dice[p] = 3 /\ resolved[c].dice[q] = 3
        /\ resolved[c].dice[r] = 1
        /\ resolved[c].bills[1] > 0
        /\ resolved[c].gain[p] = 0 /\ resolved[c].gain[q] = 0
        /\ resolved[c].gain[r] = resolved[c].bills[1]

\* the rule the payout is compared with: the k-th unique count, from the
\* highest down, takes the k-th bill of the descending list of 5 slots
RefPay(casino, p) ==
    LET dice == casino.dice
        sorted == SortDesc(casino.bills)
        k == 1 + Cardinality({q \in Slots : ~Tied(dice, q) /\ dice[q] > dice[p]})
    IN  IF Tied(dice, p) THEN 0
        ELSE IF k <= Len(sorted) THEN sorted[k] ELSE 0

\* C2: advance_round pays every slot, from every casino, what the ranking
\* rule gives it, and a player's cash grows by the sum over the casinos.
PayoutRule ==
    [][Resolved =>
        /\ \A c \in Casinos : \A p \in Slots :
              resolved'[c].gain[p] = RefPay(casinos[c], p)
        /\ \A p \in Slots :
              players'[p].cash = players[p].cash +
                  SumOver([c \in Casinos |-> RefPay(casinos[c], p)], Casinos)]_vars

\* C2 witness: a casino resolved in which four slots hold unique counts and
\* the fourth of them, from the highest down, was paid a non-empty bill.
PayoutRuleWitness ==
    \E c \in Casinos : \E p \in Slots :
        /\ Cardinality({q \in Slots : ~Tied(resolved[c].dice, q)
                                      /\ resolved[c].dice[q] > resolved[c].dice[p]}) = 3
        /\ ~Tied(resolved[c].dice, p)
        /\ resolved[c].gain[p] > 0

\* the non-empty bills the casinos hold
CasinoBills == SumOver([c \in Casinos |-> NonEmpty(casinos[c].bills)], Casinos)

\* C3: the bills in the deck, the non-empty bills in the casinos and the
\* non-empty bills paid out so far are 54 together, in every state, the
\* states after the final round has been resolved included.
BillConservation == Len(deck) + CasinoBills + payouts = TOTAL_BILLS

\* C4: a slot that is not an active player never has cash.
InactiveNoCash ==
    \A p \in Slots : p >= num_players => players[p].cash = 0

\* C5: every player's remaining dice are in 0 .. NUM_DICE, whatever roll
\* counts the accepted play_move calls were given.
DiceRange ==
    \A p \in Slots : 0 <= players[p].dice /\ players[p].dice <= NUM_DICE

\* C6: once advance_round has resolved the final round, no later call
\* changes a player's cash, the deck or the casinos.
TerminalFixed ==
    [][finals >= 1 =>
          /\ \A p \in Slots : players'[p].cash = players[p].cash
          /\ deck' = deck
          /\ casinos' = casinos]_vars

\* C7: advance_round in the final round leaves round, first_player, every
\* player's dice and every casino's placed dice as they are, takes no bill
\* from the deck (the old deck is the front of the new one), and is_end_game
\* is true afterwards.
FinalRoundFrame ==
    [][(round = NUM_ROUNDS /\ Resolved) =>
          /\ round' = round
          /\ first_player' = first_player
          /\ \A p \in Slots : players'[p].dice = players[p].dice
          /\ \A c \in Casinos : casinos'[c].dice = casinos[c].dice
          /\ Len(deck') >= Len(deck)
          /\ SubSeq(deck', 1, Len(deck)) = deck
          /\ is_end_game']_vars

\* C7 witness: the final round has been resolved, with bills returned.
FinalRoundWitness ==
    /\ round = NUM_ROUNDS /\ finals = 1
    /\ last = "advance_round" /\ err = ""
    /\ \E c \in Casinos : \E p \in Slots : casinos[c].dice[p] > 0
    /\ \E c \in Casinos : NonEmpty(casinos[c].bills) > 0

\* the arguments play_move accepts, as the claims state them
Accepted(player, action, r) ==
    /\ player \in 0 .. (num_players - 1)
    /\ action \in 0 .. 5
    /\ r > 0

\* C8: an accepted play_move(player, action, roll_counts) takes
\* roll_counts[action] from the player's dice, adds as much to the player's
\* entry of casino action, and changes nothing else of the game.
MoveFrame ==
    [][(last' = "play_move" /\ err' = "") =>
        \A player \in PlayerArgs, action \in ActionArgs, r \in RollArgs :
          (Accepted(player, action, r) /\ play_move(player, action, r)) =>
              /\ players'[player].dice = players[player].dice - r
              /\ casinos'[action].dice[player] = casinos[action].dice[player] + r
              /\ \A p \in Slots :
                    /\ players'[p].cash = players[p].cash
                    /\ p # player => players'[p].dice = players[p].dice
              /\ \A c \in Casinos :
                    /\ casinos'[c].bills = casinos[c].bills
                    /\ \A p \in Slots :
                          (c # action \/ p # player)
                              => casinos'[c].dice[p] = casinos[c].dice[p]
              /\ UNCHANGED <<num_players, deck, round, first_player>>]_vars

\* C8 witness: a move was accepted in a round after the first, into a casino
\* that holds another player's dice too.
MoveFrameWitness ==
    /\ last = "play_move" /\ err = "" /\ round > 1
    /\ \E c \in Casinos : \E p, q \in Slots :
          p # q /\ casinos[c].dice[p] > 0 /\ casinos[c].dice[q] > 0

\* C9: play_move with a player outside 0 .. num_players-1, a casino outside
\* 0 .. 5 or roll_counts[action] not above 0 raises, and the game is as
\* before: a call that raised changed nothing, and a call that did not raise
\* was no call with such arguments.
MoveRejected ==
    [][/\ (last' = "play_move" /\ err' = "AssertionError") => UNCHANGED game
       /\ (last' = "play_move" /\ err' # "AssertionError") =>
             \A player \in PlayerArgs, action \in ActionArgs, r \in RollArgs :
                 play_move(player, action, r) => Accepted(player, action, r)]_vars

\* C9 witness: a play_move call was rejected in the middle of a round.
MoveRejectedWitness ==
    /\ last = "play_move" /\ err = "AssertionError"
    /\ \E p \in Slots : players[p].dice = 0 /\ p < num_players
    /\ \E p \in Slots : players[p].dice > 0

\* every active player has placed all dice
AllPlaced == \A p \in Slots : p < num_players => players[p].dice = 0

\* C10: advance_round raises while an active player still has dice, and then
\* the game is as before (nothing paid, returned or redealt); it does not
\* raise its assertion when every active player has 0 dice.
RoundNotOver ==
    [][\A k \in Shuffles :
          advance_round(k) =>
              IF AllPlaced
              THEN err' # "AssertionError"
              ELSE /\ err' = "AssertionError"
                   /\ UNCHANGED <<game, resolved, payouts>>]_vars

\* C10 witness: advance_round was rejected with some, not all, dice placed.
RoundNotOverWitness ==
    /\ last = "advance_round" /\ err = "AssertionError"
    /\ \E p \in Slots : players[p].dice > 0
    /\ \E c \in Casinos : \E p \in Slots : casinos[c].dice[p] > 0

\* the casinos are those the last call dealt: the call was __init__, or an
\* advance_round that returned before the final round
Dealt ==
    \/ last = "__init__"
    \/ (last = "advance_round" /\ err = "" /\ finals = 0)

\* a list of exactly 5 slots, in descending order (so that the empty slots,
\* worth 0, are last), that sums to 50 or more
WellDealt(bills) ==
    /\ Len(bills) = 5
    /\ \A i \in 1 .. (Len(bills) - 1) : bills[i] >= bills[i + 1]
    /\ \A i \in 1 .. Len(bills) : bills[i] >= 0
    /\ SumSeq(bills) >= 50

\* C11: right after every deal, by __init__ or by advance_round before the
\* final round, each of the 6 casinos has exactly 5 bill slots in descending
\* order, empty slots last, and its bills sum to 50 or more.
DealerInvariant == Dealt => \A c \in Casinos : WellDealt(casinos[c].bills)

\* C11 witness: a deal by advance_round from a deck that has lost bills to
\* the players, with a casino that had to be padded and one that was not
\* satisfied by its first bill.
DealerWitness ==
    /\ last = "advance_round" /\ err = "" /\ finals = 0
    /\ payouts > 0
    /\ \E c \in Casinos : casinos[c].bills[5] = 0
    /\ \E c \in Casinos : casinos[c].bills[2] > 0

\* C12: an advance_round that returns before the final round adds 1 to
\* round, moves first_player on by one modulo num_players, gives every active
\* player NUM_DICE dice (the other slots keep 0) and installs casinos without
\* dice; and in every state 1 <= round <= NUM_ROUNDS and
\* first_player = (round - 1) mod num_players.
RoundTransition ==
    /\ [](/\ 1 <= round /\ round <= NUM_ROUNDS
          /\ first_player = (round - 1) % num_players)
    /\ [][(last' = "advance_round" /\ err' = "" /\ round < NUM_ROUNDS) =>
            /\ round' = round + 1
            /\ first_player' = (first_player + 1) % num_players
            /\ \A p \in Slots :
                  players'[p].dice = IF p < num_players THEN NUM_DICE ELSE 0
            /\ \A c \in Casinos : \A p \in Slots : casinos'[c].dice[p] = 0]_vars

\* C12 witness: the third round of a game of 2 players has just begun, so
\* first_player has wrapped around to 0.
RoundTransitionWitness ==
    /\ last = "advance_round" /\ err = ""
    /\ num_players = 2 /\ round = 3 /\ first_player = 0
    /\ \A p \in Slots : players[p].dice = (IF p < 2 THEN NUM_DICE ELSE 0)

\* C13: the deck holds only real denominations (10 .. 90), never the 0 of an
\* empty slot: advance_round returns only the non-empty unclaimed bills.
NoSentinelInDeck ==
    \A i \in 1 .. Len(deck) :
        deck[i] # 0 /\ deck[i] >= 10 /\ deck[i] <= 90 /\ deck[i] \in Denominations

\* C13 witness: advance_round has resolved a casino that had an empty slot
\* and paid fewer slots than it had bill slots, so that an empty slot was
\* among the unclaimed ones, next to a non-empty unclaimed bill.
NoSentinelWitness ==
    /\ last = "advance_round" /\ err = ""
    /\ \E c \in Casinos :
          /\ resolved[c].bills # <<>>
          /\ resolved[c].bills[5] = 0
          /\ Cardinality({p \in Slots : UniqueCount(resolved[c].dice, p)})
                 < NonEmpty(resolved[c].bills)

\* a component n / d lies in [0, 1]
InUnit(x) == x[2] > 0 /\ 0 <= x[1] /\ x[1] <= x[2]

\* C14: the vector of get_game_state has 74 components
\* (3 + MAX_PLAYERS + 6 * (MAX_PLAYERS + 5) + 6) in every state and for every
\* observing player, the states after the final round's resolution included.
StateLength ==
    \A player \in Slots : \A rc \in roll_dice(player) :
        Len(get_game_state(player, rc)) = 74

\* C15: every component of the vector lies in [0, 1], for every active
\* observing player and every list of counts roll_dice may return: cash is at
\* most CASH_NORM, placed dice at most NUM_DICE, bills at most 90, round at
\* most NUM_ROUNDS and the turn-order offset below num_players.
StateRange ==
    \A player \in 0 .. (num_players - 1) : \A rc \in roll_dice(player) :
        LET vec == get_game_state(player, rc)
        IN  /\ \A i \in 1 .. Len(vec) : InUnit(vec[i])
            /\ Order(player) < num_players
            /\ \A p \in Slots : players[p].cash <= 100

\* C16: whoever observes, the bill block of each casino lists the casino's 5
\* bill slots in the stored order; the cash block and the dice blocks start
\* with the observer's entry and go on in seating order.
BillsUnrotated ==
    \A player \in Slots : \A rc \in roll_dice(player) :
        LET vec == get_game_state(player, rc)
        IN  /\ \A i \in 0 .. 4 :
                  vec[3 + 1 + i] = <<players[(player + i) % 5].cash, 100>>
            /\ \A c \in Casinos :
                  LET base == 3 + 5 + c * 10
                  IN  /\ \A i \in 0 .. 4 :
                            vec[base + 1 + i] = <<casinos[c].dice[(player + i) % 5], 8>>
                      /\ \A i \in 1 .. 5 :
                            vec[base + 5 + i] = <<casinos[c].bills[i], 90>>

PaysOnlyPlacers ==
    \A c \in Casinos : \A p \in Slots :
        resolved[c].dice[p] = 0 => resolved[c].gain[p] = 0

\* the dice of slot p in the casinos
PlacedBy(p) == SumOver([c \in Casinos |-> casinos[c].dice[p]], Casinos)

\* the dice in casino c
PlacedIn(c) == SumOver([p \in Slots |-> casinos[c].dice[p]], Slots)

\* C19: an active player's remaining dice and dice in the 6 casinos are
\* NUM_DICE together; a slot that is not active has no dice, remaining or
\* placed; and no casino holds more than num_players * NUM_DICE dice.
DiceConservation ==
    /\ \A p \in Slots :
          IF p < num_players
          THEN players[p].dice + PlacedBy(p) = NUM_DICE
          ELSE players[p].dice = 0 /\ PlacedBy(p) = 0
    /\ \A c \in Casinos : PlacedIn(c) <= num_players * NUM_DICE

\* C20: with every move taken from the counts roll_dice returns, a player
\* with dice left always has a legal move; a play_move call never raises and
\* takes at least one die from the mover, no die from the others, and leaves
\* the mover's dice in 0 .. NUM_DICE (so a round has at most NUM_DICE moves per
\* player); round changes only by the redeal of an advance_round that
\* returned, by 1 each time, starting at 1; and the game eventually reaches
\* is_end_game, in round NUM_ROUNDS: after NUM_ROUNDS - 1 redeals.
Termination ==
    /\ round = 1
    /\ [](\A p \in 0 .. (num_players - 1) :
            /\ 0 <= players[p].dice /\ players[p].dice <= NUM_DICE
            /\ players[p].dice > 0 =>
                  /\ roll_dice(p) # {}
                  /\ \A rc \in roll_dice(p) :
                        \E a \in Casinos : rc[a + 1] > 0 /\ rc[a + 1] <= players[p].dice)
    /\ [][last' = "play_move" =>
            /\ err' = ""
            /\ \E p \in 0 .. (num_players - 1) :
                  /\ players'[p].dice < players[p].dice
                  /\ \A q \in Slots \ {p} : players'[q].dice = players[q].dice]_vars
    /\ [][/\ last' = "advance_round" => err' = ""
          /\ round' # round =>
                (last' = "advance_round" /\ finals' = 0 /\ round' = round + 1)]_vars
    /\ <>(is_end_game /\ round - 1 = NUM_ROUNDS - 1)

\* C20 witness: the end of the final round, where a player has placed the
\* dice in two moves.
TerminationWitness ==
    /\ AllPlaced /\ round = NUM_ROUNDS /\ finals = 0 /\ last = "play_move"
    /\ \E p \in Slots : casinos[0].dice[p] = 1 /\ casinos[1].dice[p] = NUM_DICE - 1

====
